---- MODULE Spec2Model ----
(***************************************************************************)
(* Model of the lottery client (client/common/client.go, batch variant,    *)
(* and the Protocol codec).  Two goroutines share the Client object: the   *)
(* orchestrator running StartClientLoop and the signal handler started by  *)
(* NewClient.  Strings are sequences of one-character strings.             *)
(***************************************************************************)
EXTENDS Integers, Sequences, FiniteSets, TLC

\* ------------------------------------------------------------------ bounds
MaxRecords == 4
MaxBatchSize == 3
MaxShortWrite == 2
MaxStrLen == 3
MaxCodecBets == 2

\* ------------------------------------------------- program constants, inputs
\* readNextBatch keeps a CSV record only when it has this many fields.
CsvFields == 5

\* c.config.ID, the agency of this client.
AgencyID == <<"1">>

\* c.config.BatchMaxAmount is read from configuration and is not validated.
BatchSizes == (-1)..MaxBatchSize

\* Lengths of records the CSV file may hold: well formed, or one field short.
Arities == {CsvFields, CsvFields - 1}

Min(a, b) == IF a < b THEN a ELSE b

Digit(d) == CASE d = 0 -> "0" [] d = 1 -> "1" [] d = 2 -> "2" [] d = 3 -> "3"
              [] d = 4 -> "4" [] d = 5 -> "5" [] d = 6 -> "6" [] d = 7 -> "7"
              [] d = 8 -> "8" [] d = 9 -> "9"

\* fmt's %d for a non-negative integer.
RECURSIVE Itoa(_)
Itoa(n) == IF n < 10 THEN <<Digit(n)>> ELSE Itoa(n \div 10) \o <<Digit(n % 10)>>

\* The i-th line of the CSV file, with `arity` fields: name, surname,
\* document, birthdate, number.  The document tells the records apart.
CsvRecord(i, arity) ==
    SubSeq(<< <<"A", " ", "B">>, <<"C">>, Itoa(i), <<"d">>, <<"n">> >>, 1, arity)

\* The CSV files of at most MaxRecords lines.
Sources ==
    UNION { { [i \in 1..n |-> CsvRecord(i, ar[i])] : ar \in [1..n -> Arities] }
            : n \in 0..MaxRecords }

\* ------------------------------------------------------------------- codec
\* escape protecting the delimiter only.
RECURSIVE escape_hashOnly(_)
escape_hashOnly(s) ==
    IF s = <<>> THEN <<>>
    ELSE (IF Head(s) = "#" THEN <<"\\">> ELSE <<>>)
         \o <<Head(s)>> \o escape_hashOnly(Tail(s))

\* Protocol.escape: a backslash before every backslash and every '#'.
RECURSIVE escape(_)
escape(s) ==
    IF s = <<>> THEN <<>>
    ELSE (IF Head(s) = "\\" \/ Head(s) = "#" THEN <<"\\">> ELSE <<>>)
         \o <<Head(s)>> \o escape(Tail(s))

\* SerializeBet with the two name arguments of Sprintf exchanged.
SerializeBet_swapsNames(b) ==
    <<"B", "E", "T">>
    \o <<"#">> \o escape(b.Agency)
    \o <<"#">> \o escape(b.LastName)
    \o <<"#">> \o escape(b.FirstName)
    \o <<"#">> \o escape(b.Document)
    \o <<"#">> \o escape(b.Birthdate)
    \o <<"#">> \o escape(b.Number)
    \o <<"\n">>

\* Protocol.SerializeBet
SerializeBet(b) ==
    <<"B", "E", "T">>
    \o <<"#">> \o escape(b.Agency)
    \o <<"#">> \o escape(b.FirstName)
    \o <<"#">> \o escape(b.LastName)
    \o <<"#">> \o escape(b.Document)
    \o <<"#">> \o escape(b.Birthdate)
    \o <<"#">> \o escape(b.Number)
    \o <<"\n">>

RECURSIVE BetLines(_)
BetLines(bets) ==
    IF bets = <<>> THEN <<>> ELSE SerializeBet(Head(bets)) \o BetLines(Tail(bets))

\* SerializeBatch whose header counts the bets after the first.
SerializeBatch_countsRest(bets) ==
    IF Len(bets) = 0 THEN <<>>
    ELSE <<"B", "A", "T", "C", "H", "#">> \o Itoa(Len(bets) - 1) \o <<"\n">>
         \o BetLines(bets)

\* Protocol.SerializeBatch
SerializeBatch(bets) ==
    IF Len(bets) = 0 THEN <<>>
    ELSE <<"B", "A", "T", "C", "H", "#">> \o Itoa(Len(bets)) \o <<"\n">>
         \o BetLines(bets)

\* Protocol.SerializeFinishBets
SerializeFinishBets(agency) ==
    <<"F", "I", "N", "I", "S", "H", "_", "B", "E", "T", "S", "#">>
    \o escape(agency) \o <<"\n">>

\* Protocol.SerializeQueryWinners
SerializeQueryWinners(agency) ==
    <<"Q", "U", "E", "R", "Y", "_", "W", "I", "N", "N", "E", "R", "S", "#">>
    \o escape(agency) \o <<"\n">>

\* StartClientLoop sends a batch only when readNextBatch returned bets.
SendsBatch(b) == Len(b) # 0

\* ---------------------------------------------------------------- responses
IsSpace(c) == c \in {" ", "\t", "\n", "\r"}

RECURSIVE TrimLeft(_)
TrimLeft(s) == IF s # <<>> /\ IsSpace(Head(s)) THEN TrimLeft(Tail(s)) ELSE s

RECURSIVE TrimRight(_)
TrimRight(s) ==
    IF s # <<>> /\ IsSpace(s[Len(s)]) THEN TrimRight(SubSeq(s, 1, Len(s) - 1)) ELSE s

\* A trim of the leading white space only.
TrimSpace_leftOnly(s) == TrimLeft(s)

\* strings.TrimSpace, as receiveResponse applies it to the bytes read.
TrimSpace(s) == TrimRight(TrimLeft(s))

\* strings.Split(s, "#"): the fields between delimiters, escapes not read.
RECURSIVE Split(_, _, _)
Split(s, cur, acc) ==
    IF s = <<>> THEN Append(acc, cur)
    ELSE IF Head(s) = "#" THEN Split(Tail(s), <<>>, Append(acc, cur))
         ELSE Split(Tail(s), Append(cur, Head(s)), acc)

IsCount(f) == f # <<>> /\ \A i \in 1..Len(f) : \E d \in 0..9 : Digit(d) = f[i]

\* decode_response of the FrameCodec: OK is success; a line whose first
\* field is WINNERS is a winners line, malformed without a count field; any
\* other text is a rejection carrying the text.
DecodeResponse(line) ==
    LET text == TrimSpace(line)
        fields == Split(text, <<>>, <<>>)
    IN  IF text = <<"O", "K">> THEN [kind |-> "ok", raw |-> text]
        ELSE IF fields[1] = <<"W", "I", "N", "N", "E", "R", "S">>
             THEN IF Len(fields) >= 2 /\ IsCount(fields[2])
                  THEN [kind |-> "winners", raw |-> text]
                  ELSE [kind |-> "malformed", raw |-> text]
             ELSE [kind |-> "rejected", raw |-> text]

\* SessionOrchestrator: the state a phase goes to on a decoded response.
PhaseAfter(kind) == IF kind \in {"ok", "winners"} THEN "NEXT_PHASE" ELSE "FAILED"

\* ------------------------------------------------------------ readNextBatch
\* Index of the first space of s, or Len(s) + 1.
RECURSIVE FirstSpace(_, _)
FirstSpace(s, i) ==
    IF i > Len(s) \/ s[i] = " " THEN i ELSE FirstSpace(s, i + 1)

\* strings.Split(s, " ")[0]
SplitHead(s) == SubSeq(s, 1, FirstSpace(s, 1) - 1)

\* strings.Join(strings.Split(s, " ")[1:], " ")
SplitRest(s) == SubSeq(s, FirstSpace(s, 1) + 1, Len(s))

\* The Bet readNextBatch builds from a five-field record.
BetOf(record) ==
    [ Agency    |-> AgencyID,
      FirstName |-> SplitHead(record[1]),
      LastName  |-> SplitRest(record[1]) \o <<" ">> \o record[2],
      Document  |-> record[3],
      Birthdate |-> record[4],
      Number    |-> record[5] ]

\* csv.Reader.Read followed by the loop body of readNextBatch, repeated while
\* len(batch) < batchSize.  The reader created by csv.NewReader has
\* FieldsPerRecord = 0: the first record read fixes the field count, and a
\* later record of another length makes Read return ErrFieldCount.
\* p is the next line to read, f the reader's FieldsPerRecord.
RECURSIVE ReadLoop(_, _, _, _, _)
ReadLoop(src, size, batch, p, f) ==
    IF ~(Len(batch) < size) \/ p > Len(src)
    THEN [batch |-> batch, pos |-> p, fpr |-> f, err |-> FALSE]
    ELSE LET record == src[p]
             f2 == IF f = 0 THEN Len(record) ELSE f
         IN  IF Len(record) # f2
             THEN [batch |-> <<>>, pos |-> p + 1, fpr |-> f2, err |-> TRUE]
             ELSE IF Len(record) # CsvFields
                  THEN ReadLoop(src, size, batch, p + 1, f2)
                  ELSE ReadLoop(src, size, Append(batch, BetOf(record)), p + 1, f2)

\* readNextBatch with the loop test len(batch) <= batchSize.
readNextBatch_offByOne(src, size, p, f) == ReadLoop(src, size + 1, <<>>, p, f)

\* readNextBatch losing the record the reader stands on when it is entered.
readNextBatch_skipsFirst(src, size, p, f) == ReadLoop(src, size, <<>>, p + 1, f)

\* readNextBatch returning after the first bet whatever the batch size.
readNextBatch_oneAtATime(src, size, p, f) == ReadLoop(src, Min(size, 1), <<>>, p, f)

\* Client.readNextBatch
readNextBatch(src, size, p, f) == ReadLoop(src, size, <<>>, p, f)

\* ------------------------------------------------------------------- state
VARIABLES
    source,         \* the records of /.data/agency-<ID>.csv
    batchSize,      \* c.config.BatchMaxAmount
    opc,            \* where the orchestrator (StartClientLoop) is
    pos,            \* csv.Reader: next record to read
    fpr,            \* csv.Reader: FieldsPerRecord
    batch,          \* StartClientLoop: batch
    batchCount,     \* StartClientLoop: batchCount
    totalBetsSent,  \* StartClientLoop: totalBetsSent
    totalWritten,   \* sendBatch: totalWritten
    err,            \* the error the session stopped with, "none" before
    conn,           \* c.conn: 0 is nil, k is the k-th connection dialed
    conns,          \* every connection dialed: state, bytes received, reply
    sleeps,         \* the values of batchCount after which time.Sleep ran
    closeFailures,  \* number of close_connection | result: fail log lines
    hpc,            \* where the signal-handler goroutine is
    sigConns,       \* connections dialed when the signal was received
    exited,         \* the process is over
    exitStatus,     \* its exit status, -1 while it runs
    cin,            \* codec: the value a Protocol function is applied to
    cout,           \* codec: the value it returned
    cpc             \* codec: which function was applied, "off" in a session

vars == <<source, batchSize, opc, pos, fpr, batch, batchCount, totalBetsSent,
          totalWritten, err, conn, conns, sleeps, closeFailures, hpc, sigConns,
          exited, exitStatus, cin, cout, cpc>>

codec == <<cin, cout, cpc>>
config == <<source, batchSize>>
reader == <<pos, fpr>>
counters == <<batchCount, totalBetsSent>>
handler == <<hpc, sigConns>>
process == <<exited, exitStatus>>

\* The one response line the Aggregator writes back once it holds a message.
Replies == {"OK", "REJECTED:bad_document"}

\* sendBatch: messageBytes
messageBytes == SerializeBatch(batch)

\* State after NewClient returned and before StartClientLoop's first statement.
Init ==
    /\ source \in Sources
    /\ batchSize \in BatchSizes
    /\ opc = "open_csv"
    /\ pos = 1
    /\ fpr = 0
    /\ batch = <<>>
    /\ batchCount = 0
    /\ totalBetsSent = 0
    /\ totalWritten = 0
    /\ err = "none"
    /\ conn = 0
    /\ conns = <<>>
    /\ sleeps = {}
    /\ closeFailures = 0
    /\ hpc = "wait"
    /\ sigConns = 0
    /\ exited = FALSE
    /\ exitStatus = -1
    /\ cin = <<>>
    /\ cout = <<>>
    /\ cpc = "off"

\* --------------------------------------------------- orchestrator goroutine
\* os.Open of the CSV file.
OpenCsv ==
    /\ ~exited /\ opc = "open_csv"
    /\ \/ opc' = "read" /\ err' = err
       \/ opc' = "failed" /\ err' = "open_csv"
    /\ UNCHANGED <<codec, config, reader, batch, counters, totalWritten, conn, conns,
                   sleeps, closeFailures, handler, process>>

\* StartClientLoop, top of the loop: readNextBatch, the error return and the
\* break on an empty batch (which logs loop_finished and returns).
ReadBatch ==
    /\ ~exited /\ opc = "read"
    /\ LET r == readNextBatch(source, batchSize, pos, fpr)
       IN  /\ pos' = r.pos
           /\ fpr' = r.fpr
           /\ batch' = r.batch
           /\ IF r.err THEN opc' = "failed" /\ err' = "read_batch"
              ELSE IF ~SendsBatch(r.batch) THEN opc' = "finished" /\ err' = err
              ELSE opc' = "dial" /\ err' = err
    /\ UNCHANGED <<codec, config, counters, totalWritten, conn, conns, sleeps,
                   closeFailures, handler, process>>

\* sendBatch -> createClientSocket: net.Dial succeeds or fails.  After a
\* success the store c.conn = conn is still to be done.
Dial ==
    /\ ~exited /\ opc = "dial"
    /\ \/ /\ conns' = Append(conns, [state |-> "open", recv |-> <<>>,
                                     bets |-> Len(batch), reply |-> "none"])
          /\ opc' = "assign"
          /\ err' = err
       \/ /\ conns' = conns
          /\ opc' = "failed"
          /\ err' = "connect"
    /\ UNCHANGED <<codec, config, reader, batch, counters, totalWritten, conn, sleeps,
                   closeFailures, handler, process>>

\* createClientSocket keeping the connection c.conn already holds.
DialedConn_keepsFirst == IF conn # 0 THEN conn ELSE Len(conns)

\* createClientSocket: the connection net.Dial just returned.
DialedConn == Len(conns)

\* createClientSocket: c.conn = conn; then sendBatch defers cleanup, builds
\* messageBytes and sets totalWritten := 0.
Assign ==
    /\ ~exited /\ opc = "assign"
    /\ conn' = DialedConn
    /\ totalWritten' = 0
    /\ opc' = IF Len(messageBytes) > 0 THEN "write" ELSE "cleanup"
    /\ UNCHANGED <<codec, config, reader, batch, counters, err, conns, sleeps,
                   closeFailures, handler, process>>

\* The byte counts an error-free c.conn.Write may report for rem bytes: a short
\* write leaves at most MaxShortWrite bytes unsent.
WriteSizes(rem) == { n \in 1..rem : rem - n <= MaxShortWrite }

\* A send loop that passes the whole message again after a short write.
WriteOffset_restarts == IF totalWritten > 0 THEN 0 ELSE totalWritten

\* sendBatch: where the next Write starts in messageBytes.
WriteOffset == totalWritten

\* sendBatch: one iteration of the send loop.  Write fails on a connection the
\* handler closed; on an open one it accepts n bytes, or fails after the
\* socket took k bytes.  When the loop ends the Aggregator holds the whole
\* message and answers with one line.
Write ==
    /\ ~exited /\ opc = "write"
    /\ LET rem == Len(messageBytes) - WriteOffset
       IN  \/ /\ conns[conn].state = "closed"
              /\ err' = "send"
              /\ opc' = "cleanup"
              /\ UNCHANGED <<conns, totalWritten>>
           \/ /\ conns[conn].state = "open"
              /\ \E n \in WriteSizes(rem), reply \in Replies :
                    /\ totalWritten' = totalWritten + n
                    /\ conns' = [conns EXCEPT
                          ![conn].recv = @ \o SubSeq(messageBytes, WriteOffset + 1,
                                                     WriteOffset + n),
                          ![conn].reply = IF totalWritten + n < Len(messageBytes)
                                          THEN @ ELSE reply]
                    /\ opc' = IF totalWritten + n < Len(messageBytes)
                              THEN "write" ELSE "cleanup"
              /\ err' = err
           \/ /\ conns[conn].state = "open"
              /\ \E k \in 0..Min(MaxShortWrite, rem - 1) :
                    conns' = [conns EXCEPT
                          ![conn].recv = @ \o SubSeq(messageBytes, WriteOffset + 1,
                                                     WriteOffset + k)]
              /\ err' = "send"
              /\ opc' = "cleanup"
              /\ UNCHANGED totalWritten
    /\ UNCHANGED <<codec, config, reader, batch, counters, conn, sleeps, closeFailures,
                   handler, process>>

\* net.Conn.Close on connection k: it closes an open connection and reports an
\* error on one already closed.
CloseFails(k) == conns[k].state = "closed"

\* A Close that releases nothing.
Closed_leavesOpen(k) == conns

\* The connections after Close was called on connection k.
Closed(k) == [conns EXCEPT ![k].state = "closed"]

\* StartClientLoop: the pacing condition after a batch was sent.
ShouldSleep(n, size) == n = size

\* StartClientLoop going on after a failed sendBatch.
AfterSendBatch_ignoresError(e) == "counted"

\* StartClientLoop: what follows sendBatch's return value.
AfterSendBatch(e) == IF e # "none" THEN "failed" ELSE "counted"

\* sendBatch's deferred cleanup (c.conn is not nil here), its return, and in
\* StartClientLoop the error return or the counters and the pacing sleep.
Cleanup ==
    /\ ~exited /\ opc = "cleanup"
    /\ conns' = Closed(conn)
    /\ closeFailures' = IF CloseFails(conn) THEN closeFailures + 1 ELSE closeFailures
    /\ IF AfterSendBatch(err) = "failed"
       THEN /\ opc' = "failed"
            /\ UNCHANGED <<counters, sleeps>>
       ELSE /\ batchCount' = batchCount + 1
            /\ totalBetsSent' = totalBetsSent + Len(batch)
            /\ IF ShouldSleep(Len(batch), batchSize)
               THEN opc' = "sleep" /\ sleeps' = sleeps \cup {batchCount + 1}
               ELSE opc' = "read" /\ sleeps' = sleeps
    /\ UNCHANGED <<codec, config, reader, batch, totalWritten, err, conn, handler, process>>

\* time.Sleep(c.config.LoopPeriod) returns.
WakeUp ==
    /\ ~exited /\ opc = "sleep"
    /\ opc' = "read"
    /\ UNCHANGED <<codec, config, reader, batch, counters, totalWritten, err, conn, conns,
                   sleeps, closeFailures, handler, process>>

\* ------------------------------------------------- signal-handler goroutine
\* NewClient's goroutine: <-sigChan and the signal_received log line.
Signal ==
    /\ ~exited /\ hpc = "wait"
    /\ hpc' = "cleanup"
    /\ sigConns' = Len(conns)
    /\ UNCHANGED <<codec, config, opc, reader, batch, counters, totalWritten, err, conn,
                   conns, sleeps, closeFailures, process>>

\* The handler reads c.conn with no synchronisation while the orchestrator
\* stores it in createClientSocket.  An interface value is two words (type,
\* data); while the store is in progress a read may see either word old or new.
\* Outside the store the handler reads the value last stored.

\* What the test c.conn != nil in cleanup may evaluate to (type word).
NilTestResults == {conn # 0} \cup (IF opc = "assign" THEN {TRUE} ELSE {})

\* The receiver c.conn.Close() may be called on (data word).
CloseReceivers == {conn} \cup (IF opc = "assign" THEN {Len(conns)} ELSE {})

\* cleanup in the handler: if c.conn != nil
HandlerCheck ==
    /\ ~exited /\ hpc = "cleanup"
    /\ \E nonNil \in NilTestResults : hpc' = IF nonNil THEN "close" ELSE "exit"
    /\ UNCHANGED <<codec, config, opc, reader, batch, counters, totalWritten, err, conn,
                   conns, sleeps, closeFailures, sigConns, process>>

\* cleanup in the handler: c.conn.Close() and its log line.  A receiver whose
\* data word is still nil is a nil *net.TCPConn: the call panics and the
\* runtime ends the process with status 2.
HandlerClose ==
    /\ ~exited /\ hpc = "close"
    /\ \E k \in CloseReceivers :
          IF k = 0
          THEN /\ hpc' = "panicked"
               /\ exited' = TRUE
               /\ exitStatus' = 2
               /\ UNCHANGED <<conns, closeFailures>>
          ELSE /\ hpc' = "exit"
               /\ conns' = Closed(k)
               /\ closeFailures' = IF CloseFails(k) THEN closeFailures + 1
                                   ELSE closeFailures
               /\ UNCHANGED process
    /\ UNCHANGED <<codec, config, opc, reader, batch, counters, totalWritten, err, conn,
                   sleeps, sigConns>>

\* The status the handler passes to os.Exit.
HandlerExitStatus == 0

\* os.Exit(0) in the handler.
HandlerExit ==
    /\ ~exited /\ hpc = "exit"
    /\ hpc' = "done"
    /\ exited' = TRUE
    /\ exitStatus' = HandlerExitStatus
    /\ UNCHANGED <<codec, config, opc, reader, batch, counters, totalWritten, err, conn,
                   conns, sleeps, closeFailures, sigConns>>

\* ----------------------------------------------------------- specification
Next ==
    \/ OpenCsv
    \/ ReadBatch
    \/ Dial
    \/ Assign
    \/ Write
    \/ Cleanup
    \/ WakeUp
    \/ Signal
    \/ HandlerCheck
    \/ HandlerClose
    \/ HandlerExit

Spec == Init /\ [][Next]_vars

\* The steps of the goroutine that runs StartClientLoop.
Orchestrator ==
    \/ OpenCsv
    \/ ReadBatch
    \/ Dial
    \/ Assign
    \/ Write
    \/ Cleanup
    \/ WakeUp

\* The scheduler runs the orchestrator whenever it can take a step, and each
\* open, read, connect, write, close and sleep call returns.
FairSpec == Spec /\ WF_vars(Orchestrator)

\* ------------------------------------------------------- codec on its own
\* The Protocol functions applied to inputs drawn from bounded sets, with no
\* session running.
session == <<config, opc, reader, batch, counters, totalWritten, err, conn, conns,
             sleeps, closeFailures, handler, process>>

SessionOff ==
    /\ source = <<>>
    /\ batchSize = 0
    /\ opc = "off"
    /\ pos = 1
    /\ fpr = 0
    /\ batch = <<>>
    /\ batchCount = 0
    /\ totalBetsSent = 0
    /\ totalWritten = 0
    /\ err = "none"
    /\ conn = 0
    /\ conns = <<>>
    /\ sleeps = {}
    /\ closeFailures = 0
    /\ hpc = "off"
    /\ sigConns = 0
    /\ exited = FALSE
    /\ exitStatus = -1

\* The delimiter, the escape byte and an ordinary character.
Alphabet == {"#", "\\", "a"}

\* The strings of at most MaxStrLen characters.
Strings == UNION { [1..k -> Alphabet] : k \in 0..MaxStrLen }

\* Field values: empty, ordinary, the delimiter, the escape byte, both.
FieldSamples == { <<>>, <<"a">>, <<"#">>, <<"\\">>, <<"\\", "#">> }

\* The bets whose six fields are field samples.
Bets == [ Agency : FieldSamples, FirstName : FieldSamples, LastName : FieldSamples,
          Document : FieldSamples, Birthdate : FieldSamples, Number : FieldSamples ]

Bet(a, f, l, d, b, n) ==
    [Agency |-> a, FirstName |-> f, LastName |-> l, Document |-> d,
     Birthdate |-> b, Number |-> n]

\* Bets told apart by every field, with and without bytes to escape.
BetSamples ==
    { Bet(<<"1">>, <<"A">>, <<"C">>, <<"1">>, <<"d">>, <<"n">>),
      Bet(<<"2">>, <<"#">>, <<"\\">>, <<"2">>, <<"e">>, <<"m">>),
      Bet(<<>>, <<>>, <<>>, <<>>, <<>>, <<>>) }

\* A batch long enough for a header count of two digits.
LongBatch == [i \in 1..12 |-> Bet(<<"1">>, <<"A">>, <<"C">>, Itoa(i), <<"d">>, <<"n">>)]

\* The batches of at most MaxCodecBets sample bets, and the long one.
Batches == UNION { [1..k -> BetSamples] : k \in 0..MaxCodecBets } \cup {LongBatch}

\* Response texts without surrounding white space: the OK token and its
\* near misses, WINNERS lines well and badly formed, and other texts.
ResponseCores ==
    { <<"O", "K">>,
      <<"o", "k">>,
      <<"O", "K", "A", "Y">>,
      <<"O", " ", "K">>,
      <<>>,
      <<"E", "R", "R", "O", "R">>,
      <<"W", "I", "N", "N", "E", "R", "S">>,
      <<"W", "I", "N", "N", "E", "R", "S", "#", "0">>,
      <<"W", "I", "N", "N", "E", "R", "S", "#", "2", "#", "1", "#", "2">>,
      <<"W", "I", "N", "N", "E", "R", "S", "#">>,
      <<"W", "I", "N", "N", "E", "R", "S", "#", "x">>,
      <<"W", "I", "N", "N", "E", "R", "S", "X">>,
      <<"X", "W", "I", "N", "N", "E", "R", "S", "#", "1">>,
      <<"R", "E", "J", "E", "C", "T", "E", "D", ":", "b", "a", "d", "_", "d", "o", "c", "u", "m", "e", "n", "t">> }

\* White space around a response line as it arrives.
LeadingSpace == { <<>>, <<" ">> }
TrailingSpace == { <<>>, <<"\n">>, <<"\r", "\n">>, <<" ", "\n">> }

\* The bytes c.conn.Read may deliver: a text with white space around it.
Responses == [pre : LeadingSpace, core : ResponseCores, post : TrailingSpace]

CodecInit ==
    /\ SessionOff
    /\ cout = <<>>
    /\ \/ cpc = "string" /\ cin \in Strings
       \/ cpc = "bet" /\ cin \in Bets
       \/ cpc = "batch" /\ cin \in Batches
       \/ cpc = "response" /\ cin \in Responses

\* Protocol.escape applied to a string.
Escape ==
    /\ cpc = "string"
    /\ cout' = escape(cin)
    /\ cpc' = "escaped"
    /\ UNCHANGED <<cin, session>>

\* Protocol.SerializeBet applied to a bet.
EncodeBet ==
    /\ cpc = "bet"
    /\ cout' = SerializeBet(cin)
    /\ cpc' = "bet_line"
    /\ UNCHANGED <<cin, session>>

\* StartClientLoop's use of a batch: an empty one ends the loop unsent, any
\* other is serialized by sendBatch.
EncodeBatch ==
    /\ cpc = "batch"
    /\ cout' = SerializeBatch(cin)
    /\ cpc' = IF SendsBatch(cin) THEN "batch_sent" ELSE "batch_dropped"
    /\ UNCHANGED <<cin, session>>

\* receiveResponse returns the trimmed text of the bytes read; the response
\* is decoded and the phase moves on it.
ReceiveResponse ==
    /\ cpc = "response"
    /\ LET response == TrimSpace(cin.pre \o cin.core \o cin.post)
           decoded == DecodeResponse(response)
       IN  cout' = [text |-> response, kind |-> decoded.kind, raw |-> decoded.raw,
                    phase |-> PhaseAfter(decoded.kind)]
    /\ cpc' = "decoded"
    /\ UNCHANGED <<cin, session>>

CodecNext ==
    \/ Escape
    \/ EncodeBet
    \/ EncodeBatch
    \/ ReceiveResponse

CodecSpec == CodecInit /\ [][CodecNext]_vars

\* ------------------------------------------------------------------ claims
AllWellFormed == \A i \in 1..Len(source) : Len(source[i]) = CsvFields

\* The bets of a source of well-formed records, in source order.
SourceBets == [i \in 1..Len(source) |-> BetOf(source[i])]

CeilDiv(a, b) == (a + b - 1) \div b

\* chunks(R, m)[k] of the specification's BatchScheduler.
Chunk(k) == SubSeq(SourceBets, (k - 1) * batchSize + 1,
                   Min(k * batchSize, Len(source)))

RECURSIVE SumBets(_)
SumBets(k) == IF k = 0 THEN 0 ELSE conns[k].bets + SumBets(k - 1)

IsPrefix(s, t) == Len(s) <= Len(t) /\ s = SubSeq(t, 1, Len(s))

\* C1: a session over R >= 1 well-formed records with batch size m > 0 that
\* ends with every connect and send successful has sent exactly ceil(R/m)
\* batches, all but the last of m records, sizes summing to R, and the k-th
\* connection received exactly the serialization of the k-th chunk of the
\* source, so records are on the wire in source order, none lost or repeated.
C1_BatchesPartitionSource ==
    (opc = "finished" /\ AllWellFormed /\ Len(source) >= 1 /\ batchSize > 0) =>
        /\ Len(conns) = CeilDiv(Len(source), batchSize)
        /\ batchCount = Len(conns)
        /\ \A k \in 1..Len(conns) :
              /\ conns[k].recv = SerializeBatch(Chunk(k))
              /\ conns[k].bets = Len(Chunk(k))
              /\ k < Len(conns) => conns[k].bets = batchSize
        /\ SumBets(Len(conns)) = Len(source)
        /\ totalBetsSent = Len(source)

C1_Witness ==
    /\ opc = "finished" /\ AllWellFormed
    /\ Len(source) = 4 /\ batchSize = 3
    /\ Len(conns) = 2 /\ conns[2].bets = 1

\* C2: every batch handed to sendBatch, and every BATCH message a socket
\* received bytes of, holds between 1 and batch_max_amount records; no
\* connection exists for an empty batch.
C2_BatchSizeInRange ==
    /\ opc \in {"dial", "assign", "write", "cleanup"} =>
          (1 <= Len(batch) /\ Len(batch) <= batchSize)
    /\ \A k \in 1..Len(conns) :
          /\ 1 <= conns[k].bets /\ conns[k].bets <= batchSize
          /\ LET header == <<"B", "A", "T", "C", "H", "#">> \o Itoa(conns[k].bets)
                           \o <<"\n">>
             IN  IsPrefix(conns[k].recv, header) \/ IsPrefix(header, conns[k].recv)

C2_Witness ==
    /\ batchSize = 3 /\ Len(conns) = 2
    /\ conns[1].bets = 3 /\ conns[2].bets = 1 /\ Len(conns[2].recv) > 8

\* C3: at the end of a session without failure the pacing sleep ran after
\* every batch except the final one, and not after the final one.
C3_SleepAfterAllButFinal ==
    opc = "finished" => sleeps = 1..(batchCount - 1)

\* C4: the session goes on from the batches to FINISH_BETS and then
\* QUERY_WINNERS: when it has finished, a connection received the FINISH_BETS
\* message of the agency, answered OK, and a later one the QUERY_WINNERS message.
C4_FinishThenQuery ==
    (opc = "finished" /\ batchCount >= 1) =>
        \E i, j \in 1..Len(conns) :
            /\ i < j
            /\ conns[i].recv = SerializeFinishBets(AgencyID)
            /\ conns[i].reply = "OK"
            /\ conns[j].recv = SerializeQueryWinners(AgencyID)

\* C5: a batch the Aggregator answered with a line other than OK is the last
\* message of the session: no later connection is opened, so no later batch,
\* FINISH_BETS or QUERY_WINNERS is sent.
C5_RejectionStopsSession ==
    \A k \in 1..Len(conns) :
        conns[k].reply \notin {"none", "OK"} => Len(conns) = k

\* C6: once the session has met its first failure no connection is opened,
\* no byte is written, no record is read, no sleep is performed and no batch
\* is counted; and the failed batch was not counted as sent.
C6_FailedBatchNotCounted ==
    /\ err = "send" => batchCount = Len(conns) - 1
    /\ err \in {"connect", "read_batch", "open_csv"} => batchCount = Len(conns)
    /\ err # "none" => totalBetsSent = SumBets(batchCount)

C6_NothingAfterFailure ==
    err # "none" =>
        /\ err' = err
        /\ Len(conns') = Len(conns)
        /\ \A k \in 1..Len(conns) : conns'[k].recv = conns[k].recv
        /\ pos' = pos
        /\ sleeps' = sleeps
        /\ batchCount' = batchCount
        /\ opc' \in {"cleanup", "failed"}

C6_FailureIsTerminal ==
    [](C6_FailedBatchNotCounted) /\ [][C6_NothingAfterFailure]_vars

C6_Witness ==
    /\ err = "send" /\ opc = "failed"
    /\ Len(conns) = 2 /\ pos <= Len(source)
    /\ conns[2].recv # <<>>

\* C7: all connections but the latest are closed, so at most one is open and
\* each was closed before the next was opened; and whenever sendBatch has
\* returned, with or without an error, the connection it opened is closed.
C7_OneConnectionAtATime ==
    /\ \A k \in 1..(Len(conns) - 1) : conns[k].state = "closed"
    /\ opc \in {"read", "sleep", "finished", "failed"} =>
          \A k \in 1..Len(conns) : conns[k].state = "closed"

C7_Witness ==
    /\ Len(conns) = 3 /\ conns[3].state = "open"
    /\ opc = "write" /\ totalWritten > 0
    /\ hpc = "wait"

\* C8: once the signal was received no connection is opened, and when the
\* process is over no connection of the session is open.
C8_NoNewWorkAfterSignal ==
    /\ hpc # "wait" => Len(conns) = sigConns
    /\ exited => \A k \in 1..Len(conns) : conns[k].state = "closed"

\* C9: the process that ends after the signal was received ends with status 0.
C9_SignalExitsZero ==
    (hpc # "wait" /\ exited) => exitStatus = 0

\* C10: the handler's close is race-free and safe: the handler never reads
\* c.conn while the orchestrator is storing it, cleanup never crashes the
\* process, and a failed close never becomes a session failure.
C10_CloseIsRaceFree ==
    /\ ~(opc = "assign" /\ hpc \in {"cleanup", "close"})
    /\ hpc # "panicked"
    /\ (closeFailures > 0 /\ err = "none") => opc # "failed"

\* The matching decoder of a field: drop each escape byte and keep the
\* character after it.
RECURSIVE unescape(_)
unescape(s) ==
    IF s = <<>> THEN <<>>
    ELSE IF Head(s) = "\\"
         THEN IF Len(s) >= 2 THEN <<s[2]>> \o unescape(SubSeq(s, 3, Len(s)))
              ELSE <<>>
         ELSE <<Head(s)>> \o unescape(Tail(s))

Special(c) == c = "#" \/ c = "\\"

\* Number of delimiter and escape bytes among the first i characters of s.
SpecialsUpTo(s, i) == Cardinality({ j \in 1..i : Special(s[j]) })

\* C11: escape(s) is s with one backslash inserted immediately before each
\* '#' and each backslash and every other character unchanged, and the
\* matching unescape gives s back.
C11_EscapeRoundTrip ==
    cpc = "escaped" =>
        /\ Len(cout) = Len(cin) + SpecialsUpTo(cin, Len(cin))
        /\ \A i \in 1..Len(cin) :
              LET at == i + SpecialsUpTo(cin, i)
              IN  /\ cout[at] = cin[i]
                  /\ Special(cin[i]) => cout[at - 1] = "\\"
        /\ unescape(cout) = cin

C11_Witness ==
    /\ cpc = "escaped"
    /\ cin = <<"\\", "a", "#">>
    /\ cout = <<"\\", "\\", "a", "\\", "#">>

\* A line cut at its unescaped delimiters; an escape byte keeps the character
\* after it in the field.  cur is the field being read, acc the fields read.
RECURSIVE SplitFields(_, _, _)
SplitFields(s, cur, acc) ==
    IF s = <<>> THEN Append(acc, cur)
    ELSE IF Head(s) = "\\" /\ Len(s) >= 2
         THEN SplitFields(SubSeq(s, 3, Len(s)), cur \o <<s[1], s[2]>>, acc)
         ELSE IF Head(s) = "#"
              THEN SplitFields(Tail(s), <<>>, Append(acc, cur))
              ELSE SplitFields(Tail(s), cur \o <<Head(s)>>, acc)

\* C12: SerializeBet(b) is one line ending in a single newline; cut at the
\* unescaped delimiters and unescaped field by field it is the tag BET and
\* the six fields of b in the order agency, first name, last name, document,
\* birthdate, number.
C12_BetLineRoundTrip ==
    cpc = "bet_line" =>
        /\ Len(cout) >= 1
        /\ cout[Len(cout)] = "\n"
        /\ \A i \in 1..(Len(cout) - 1) : cout[i] # "\n"
        /\ LET fields == SplitFields(SubSeq(cout, 1, Len(cout) - 1), <<>>, <<>>)
           IN  /\ Len(fields) = 7
               /\ fields[1] = <<"B", "E", "T">>
               /\ unescape(fields[2]) = cin.Agency
               /\ unescape(fields[3]) = cin.FirstName
               /\ unescape(fields[4]) = cin.LastName
               /\ unescape(fields[5]) = cin.Document
               /\ unescape(fields[6]) = cin.Birthdate
               /\ unescape(fields[7]) = cin.Number

C12_Witness ==
    /\ cpc = "bet_line"
    /\ cin.Agency = <<"a">> /\ cin.FirstName = <<"\\">> /\ cin.LastName = <<"#">>
    /\ cin.Document = <<"\\", "#">> /\ cin.Birthdate = <<>> /\ cin.Number = <<"a">>
    /\ cout = <<"B", "E", "T", "#", "a", "#", "\\", "\\", "#", "\\", "#", "#",
                "\\", "\\", "\\", "#", "#", "#", "a", "\n">>

\* The lines of s, each with its terminating newline; an unterminated rest
\* is the last line.
SplitLines(s) ==
    LET ends == { i \in 1..Len(s) : s[i] = "\n" } \cup (IF s = <<>> THEN {} ELSE {Len(s)})
        End(k) == IF k = 0 THEN 0
                  ELSE CHOOSE i \in ends : Cardinality({ j \in ends : j <= i }) = k
    IN  [k \in 1..Cardinality(ends) |-> SubSeq(s, End(k - 1) + 1, End(k))]

IsDigit(c) == \E d \in 0..9 : Digit(d) = c

\* The number written by a sequence of decimal digits.
RECURSIVE ParseNat(_)
ParseNat(ds) ==
    IF ds = <<>> THEN 0
    ELSE 10 * ParseNat(SubSeq(ds, 1, Len(ds) - 1))
         + (CHOOSE d \in 0..9 : Digit(d) = ds[Len(ds)])

\* C13: for a non-empty sequence of bets SerializeBatch gives the header line
\* BATCH#<count>, count being the number of bets, followed by exactly count
\* lines, the i-th being SerializeBet of the i-th bet; for the empty sequence
\* it gives the empty message, which the caller does not send.
C13_BatchMessage ==
    cpc \in {"batch_sent", "batch_dropped"} =>
        IF cin = <<>>
        THEN cout = <<>> /\ cpc = "batch_dropped"
        ELSE /\ cpc = "batch_sent"
             /\ LET lines == SplitLines(cout)
                    header == lines[1]
                    count == SubSeq(header, 7, Len(header) - 1)
                IN  /\ Len(lines) = Len(cin) + 1
                    /\ SubSeq(header, 1, 6) = <<"B", "A", "T", "C", "H", "#">>
                    /\ Len(count) >= 1
                    /\ \A i \in 1..Len(count) : IsDigit(count[i])
                    /\ ParseNat(count) = Len(cin)
                    /\ header[Len(header)] = "\n"
                    /\ \A i \in 1..Len(cin) : lines[i + 1] = SerializeBet(cin[i])

C13_Witness ==
    /\ cpc = "batch_sent"
    /\ Len(cin) = 12
    /\ SubSeq(cout, 1, 9) = <<"B", "A", "T", "C", "H", "#", "1", "2", "\n">>

\* C14: in the send loop the socket holds exactly the first totalWritten
\* bytes of the message, in order; the loop goes on while bytes remain and
\* reports success only with totalWritten equal to the message length; the
\* first Write that reports an error ends the loop and nothing is written
\* after it.
C14_SendLoopState ==
    opc \in {"write", "cleanup"} =>
        LET got == conns[conn].recv
        IN  /\ IsPrefix(got, messageBytes)
            /\ totalWritten <= Len(messageBytes)
            /\ err = "none" => got = SubSeq(messageBytes, 1, totalWritten)
            /\ opc = "write" => err = "none" /\ totalWritten < Len(messageBytes)
            /\ (opc = "cleanup" /\ err = "none") =>
                   totalWritten = Len(messageBytes) /\ got = messageBytes
            /\ (opc = "cleanup" /\ totalWritten < Len(messageBytes)) => err = "send"

C14_SendLoopStep ==
    /\ (opc = "write" /\ err' = "send") =>
           /\ opc' = "cleanup"
           /\ totalWritten' = totalWritten
           /\ IsPrefix(conns[conn].recv, conns'[conn].recv)
    /\ (opc = "write" /\ err' = "none") =>
           /\ totalWritten' >= totalWritten
           /\ Len(conns'[conn].recv) = totalWritten'
           /\ IsPrefix(conns[conn].recv, conns'[conn].recv)
    /\ err = "send" =>
           /\ Len(conns') = Len(conns)
           /\ \A k \in 1..Len(conns) : conns'[k].recv = conns[k].recv

C14_SendLoop ==
    [](C14_SendLoopState) /\ [][C14_SendLoopStep]_vars

C14_Witness ==
    /\ opc = "write"
    /\ totalWritten = Len(messageBytes) - 1
    /\ conns[conn].recv = SubSeq(messageBytes, 1, totalWritten)
    /\ Len(batch) = 2

\* C15: a session whose batch size is zero or negative does not finish as a
\* successful session and sends nothing, whatever records its source holds.
C15_NonPositiveBatchSizeFails ==
    (batchSize <= 0 /\ Len(source) >= 1 /\ AllWellFormed) =>
        /\ opc # "finished"
        /\ conns = <<>>

\* The well-formed records of the source, in source order.
WellFormed == SelectSeq(source, LAMBDA r : Len(r) = CsvFields)

\* The k-th batch of the well-formed records.
WellFormedChunk(k) ==
    LET bets == [i \in 1..Len(WellFormed) |-> BetOf(WellFormed[i])]
    IN  SubSeq(bets, (k - 1) * batchSize + 1, Min(k * batchSize, Len(bets)))

\* C16: records of the wrong arity are skipped and are not fatal: the session
\* does not fail on reading them, and a session that finishes has sent the
\* well-formed records, in source order, in batches counted without the
\* skipped ones.
C16_MalformedSkipped ==
    /\ err # "read_batch"
    /\ (opc = "finished" /\ batchSize > 0) =>
           /\ Len(conns) = CeilDiv(Len(WellFormed), batchSize)
           /\ \A k \in 1..Len(conns) :
                 conns[k].recv = SerializeBatch(WellFormedChunk(k))

\* C17: a session with a valid batch size whose source cannot be opened, or
\* holds no record, ends in a failure without opening a connection and does
\* not finish successfully.
C17_NoRecordsIsFailure ==
    /\ err = "open_csv" => opc = "failed" /\ conns = <<>>
    /\ (source = <<>> /\ batchSize > 0) => opc # "finished" /\ conns = <<>>

\* C18: every connection carries one message: what a connection received is
\* (a prefix of) the one batch message written between its opening and its
\* closing, the orchestrator writes only on the connection it opened last,
\* and a connection that was closed or reported a send error receives
\* nothing more and is not opened again.
C18_OneMessageState ==
    /\ \A k \in 1..Len(conns) :
          IsPrefix(conns[k].recv, SerializeBatch(WellFormedChunk(k)))
    /\ opc \in {"write", "cleanup"} => conn = Len(conns)
    /\ (opc = "write" /\ conns[conn].state = "closed") => hpc \in {"exit", "done"}

C18_OneMessageStep ==
    /\ Len(conns') >= Len(conns)
    /\ \A k \in 1..Len(conns) :
          /\ conns[k].state = "closed" => conns'[k] = conns[k]
          /\ conns'[k].recv # conns[k].recv =>
                /\ opc = "write" /\ err = "none"
                /\ k = conn /\ k = Len(conns)
    /\ err = "send" => \A k \in 1..Len(conns) : conns'[k].recv = conns[k].recv

C18_OneMessagePerConnection ==
    [](C18_OneMessageState) /\ [][C18_OneMessageStep]_vars

C18_Witness ==
    /\ Len(conns) = 2
    /\ conns[1].state = "closed"
    /\ conns[1].recv = SerializeBatch(WellFormedChunk(1))
    /\ opc = "write" /\ conn = 2
    /\ conns[2].recv # <<>>
    /\ Len(source) = 3 /\ batchSize = 2

NonEmptyBatches ==
    IF batchSize > 0 THEN CeilDiv(Len(WellFormed), batchSize) ELSE 0

Terminated == opc \in {"finished", "failed"} \/ exited

\* C20: when every call returns and an error-free write accepts at least one
\* byte, StartClientLoop ends, finished or at its first failure (or the
\* process exits on the signal); every send loop ends; and the session never
\* opens more connections than the source has non-empty batches.
C20_Terminates ==
    /\ <>Terminated
    /\ (opc = "write") ~> (opc # "write" \/ exited)
    /\ [](Len(conns) <= NonEmptyBatches)

C20_Witness ==
    /\ opc = "finished"
    /\ Len(source) = 4 /\ AllWellFormed /\ batchSize = 2
    /\ Len(conns) = 2 /\ NonEmptyBatches = 2
    /\ hpc = "wait"

====
